---------------------------- MODULE Spec2Model ----------------------------
(***************************************************************************)
(* Jira Search Pro+ : a model of the two Streamlit scripts src/app.py and  *)
(* src/uat_app.py.                                                         *)
(*                                                                         *)
(* A Streamlit script is re-executed from top to bottom on every user      *)
(* interaction; st.session_state and the values of the widgets rendered    *)
(* by the previous run survive between runs.  One action of the UI         *)
(* specification is therefore one user interaction together with the       *)
(* whole script run it triggers.  A widget call is modelled by the value   *)
(* it returns to the script; Streamlit's own validation of the arguments   *)
(* of a widget is not part of the model.                                   *)
(*                                                                         *)
(*   Spec      the two UI state machines (variant = "app" or "uat")        *)
(*   SpecJql   the query builders build_jql / sanitize_jql / search_jira   *)
(*   SpecDate  parse_jira_date                                             *)
(*   SpecNet   the network call of search_jira, with a wall clock          *)
(*   SpecAtt   the result loop of uat_app.py with the issues' attachments  *)
(*   SpecOcr   extract_text and its st.cache_data store                    *)
(***************************************************************************)
EXTENDS Integers, Sequences, FiniteSets, TLC

VARIABLES
    variant,            \* which script the session runs: "app" | "uat"
    creds,              \* the URL / username / password inputs are all filled
    \* ---- src/app.py: st.session_state
    raw_results, filtered_results, page, auth_verified,
    \* ---- src/app.py: widget values kept by Streamlit between runs
    w_live,             \* the filter widgets were rendered by the last run
    w_projects, w_date, w_statuses,
    btn_prev, btn_next, \* the button was rendered, and rendered enabled
    \* ---- src/uat_app.py: st.session_state
    search_results, search_params, available_statuses, available_platforms,
    \* ---- src/uat_app.py: widget values
    w_platform_live, w_platform,
    \* ---- what the last run put on the screen
    shown,              \* the issues rendered
    shown_of,           \* the filtered list that was sliced
    shown_page,         \* the page number used for the slice
    displayed,          \* the result loop ran
    error_shown,        \* st.error was called by the search
    \* ---- history
    event,              \* the interaction that triggered the last run
    last_ok,            \* what the last successful search returned
    failed_since_ok,    \* a search failed after the last successful one
    \* ---- SpecJql
    jq_pc, jq_query, jq_projects, jq_statuses, jq_platform, jq_time,
    jq_app, jq_uat,
    \* ---- SpecDate
    dt_pc, dt_py311, dt_base, dt_frac, dt_zone, dt_with, dt_without,
    \* ---- SpecNet
    nt_app,             \* the script whose search_jira is called
    nt_clock,           \* wall clock, in seconds
    nt_submits,         \* searches the user has submitted with credentials
    nt_calls,           \* per search: when it was submitted, when requests.get was called
    nt_attempts,        \* requests.get calls made by the last search
    nt_outcome,         \* the answer to the last of them
    nt_surfaced,        \* the last search showed an error
    \* ---- SpecAtt
    at_pc,              \* "idle" | "ready" (a page to display) | "done" (the run ended)
    at_page,            \* the issues of the page: the attachment list of each
    at_rendered,        \* issues whose expander the run rendered to its end
    at_exc,             \* the exception that ended the run ("" for none)
    at_controls,        \* the run reached the pagination controls
    \* ---- SpecOcr
    oc_cache,           \* st.cache_data's store of extract_text
    oc_runs,            \* per content reference: executions of extract_text's body
    oc_first,           \* per content reference: what the first request returned
    oc_requests,        \* OCR requests made
    oc_last             \* the last request and what it returned

uiVars == <<variant, creds, raw_results, filtered_results, page, auth_verified,
            w_live, w_projects, w_date, w_statuses, btn_prev, btn_next,
            search_results, search_params, available_statuses,
            available_platforms, w_platform_live, w_platform,
            shown, shown_of, shown_page, displayed, error_shown,
            event, last_ok, failed_since_ok>>
jqVars == <<jq_pc, jq_query, jq_projects, jq_statuses, jq_platform, jq_time,
            jq_app, jq_uat>>
dtVars == <<dt_pc, dt_py311, dt_base, dt_frac, dt_zone, dt_with, dt_without>>
ntVars == <<nt_app, nt_clock, nt_submits, nt_calls, nt_attempts, nt_outcome,
            nt_surfaced>>
atVars == <<at_pc, at_page, at_rendered, at_exc, at_controls>>
ocVars == <<oc_cache, oc_runs, oc_first, oc_requests, oc_last>>
attVars == <<atVars, ocVars>>
vars == <<uiVars, jqVars, dtVars, ntVars, attVars>>

(***************************************************************************)
(* Bounds of the model.                                                    *)
(***************************************************************************)
MaxIssues == 12         \* issues the ticketing system holds
MaxQuery == 3           \* distinct search texts the user types
MaxQueryLen == 4        \* characters of a search text given to the query builders
MaxFacetLen == 2        \* projects in a project list given to the query builders
MaxFrac == 5            \* digits of the fractional seconds of a timestamp
MaxClock == 5           \* seconds of wall clock
MaxSearches == 3        \* searches submitted in a row
MaxPageIssues == 3      \* issues on the page the result loop displays
MaxAttachments == 2     \* attachments of an issue
MaxOcrRequests == 3     \* clicks on "Run OCR" buttons

(***************************************************************************)
(* Program constants.                                                      *)
(***************************************************************************)
RESULTS_PER_PAGE == 10
UAT_RESULTS_PER_PAGE == 10

(***************************************************************************)
(* Generic helpers.                                                        *)
(***************************************************************************)
Min(a, b) == IF a < b THEN a ELSE b
Max(a, b) == IF a > b THEN a ELSE b
Range(s) == {s[i] : i \in DOMAIN s}

\* s is an order-preserving subsequence of t
RECURSIVE IsSubseq(_, _)
IsSubseq(s, t) ==
    IF s = <<>> THEN TRUE
    ELSE IF t = <<>> THEN FALSE
    ELSE IF Head(s) = Head(t) THEN IsSubseq(Tail(s), Tail(t))
    ELSE IsSubseq(s, Tail(t))

\* Python's s[a:b], negative indices included
PyIndex(k, n) == IF k < 0 THEN Max(k + n, 0) ELSE Min(k, n)
PySlice(s, a, b) ==
    LET lo == PyIndex(a, Len(s))
        hi == PyIndex(b, Len(s))
    IN  IF lo < hi THEN SubSeq(s, lo + 1, hi) ELSE <<>>

\* sorted(set): the members of S that occur in the ordered universe u, in u's order
RECURSIVE SortedBy(_, _)
SortedBy(S, u) ==
    IF u = <<>> THEN <<>>
    ELSE (IF Head(u) \in S THEN <<Head(u)>> ELSE <<>>) \o SortedBy(S, Tail(u))

(***************************************************************************)
(* The ticketing system: the issues it holds, as the search endpoint       *)
(* returns them.  An issue is identified by the sequence number of its     *)
(* key; the lists of the model hold these numbers, and Issue(i) is the     *)
(* part of the JSON object the scripts read: key (project and sequence     *)
(* number), fields.status.name, fields.updated and fields.created (as an   *)
(* age in days at the time of the session), fields.customfield_12345.value *)
(* ("" when the field is absent or null).  No statement of either script   *)
(* assigns to an issue, so the fields of a retrieved issue are fixed.      *)
(***************************************************************************)
ProjectNames == <<"BCC", "RBOC">>
StatusNames == <<"Done", "In Progress", "Open">>
PlatformNames == <<"Android", "iOS">>
UpdatedAges == <<3, 20, 100, 400>>

\* issue['key'].split('-')[0]
ProjectOf(i) == ProjectNames[(i % 2) + 1]
\* issue['fields']['status']['name']
StatusOf(i) == StatusNames[(i % 3) + 1]
\* issue['fields']['updated'], issue['fields']['created']: days before now
UpdatedOf(i) == UpdatedAges[(i % 4) + 1]
CreatedOf(i) == UpdatedAges[(i % 4) + 1] + (i % 2) * 5
\* issue['fields']['customfield_12345']['value']
PlatformOf(i) == IF i % 5 = 0 THEN "iOS" ELSE IF i % 5 = 1 THEN "Android" ELSE ""

Issue(i) ==
    [key |-> <<ProjectOf(i), i>>, status |-> StatusOf(i), updated |-> UpdatedOf(i),
     created |-> CreatedOf(i), platform |-> PlatformOf(i)]

DB == [i \in 1..MaxIssues |-> i]

\* The issues the ticketing system matches to search text q, in its order:
\* text 0 matches nothing, text q every q-th issue.
TextMatches(q) == SelectSeq(DB, LAMBDA i : q # 0 /\ i % q = 0)

(***************************************************************************)
(* src/app.py : client-side filters and pagination.                        *)
(***************************************************************************)
\* the option lists of the two multiselects (the sets behind sorted({...}))
ProjectOptions(issues) == {ProjectOf(issues[i]) : i \in DOMAIN issues}
StatusOptions(issues) == {StatusOf(issues[i]) : i \in DOMAIN issues}

DateOptions == {"All", "Last 7 days", "Last 30 days", "Last 90 days", "Last 1 year"}
\* the timeframes the modelled user picks
DateChoices == {"All", "Last 30 days"}
DateDays(d) ==
    CASE d = "Last 7 days" -> 7
      [] d = "Last 30 days" -> 30
      [] d = "Last 90 days" -> 90
      [] d = "Last 1 year" -> 365

\* if selected_projects: filtered = [i for i in filtered if project in selected_projects]
FilterProjects(issues, selected_projects) ==
    IF selected_projects # {}
    THEN SelectSeq(issues, LAMBDA i : ProjectOf(i) \in selected_projects)
    ELSE issues

\* if date_filter != "All": keep the issues updated after now - days
FilterDate(issues, date_filter) ==
    IF date_filter # "All"
    THEN SelectSeq(issues, LAMBDA i : UpdatedOf(i) < DateDays(date_filter))
    ELSE issues

\* a status filter without the emptiness test: an empty selection rejects everything
FilterStatusesStrict(issues, selected_statuses) ==
    SelectSeq(issues, LAMBDA i : StatusOf(i) \in selected_statuses)

\* if selected_statuses: filtered = [i for i in filtered if status in selected_statuses]
FilterStatuses(issues, selected_statuses) ==
    IF selected_statuses # {}
    THEN SelectSeq(issues, LAMBDA i : StatusOf(i) \in selected_statuses)
    ELSE issues

\* a filter that also groups its result by status: the order of retrieval is lost
show_results_filters_grouped(issues, selected_projects, date_filter, selected_statuses) ==
    LET f == FilterStatuses(FilterDate(FilterProjects(issues, selected_projects),
                                       date_filter), selected_statuses)
    IN  FilterStatusesStrict(f, {"Open"}) \o FilterStatusesStrict(f, {"In Progress"})
          \o FilterStatusesStrict(f, {"Done"})

show_results_filters(issues, selected_projects, date_filter, selected_statuses) ==
    FilterStatuses(FilterDate(FilterProjects(issues, selected_projects), date_filter),
                   selected_statuses)

\* issues[start:end] of display_results
display_results(issues, pg) ==
    PySlice(issues, (pg - 1) * RESULTS_PER_PAGE,
            (pg - 1) * RESULTS_PER_PAGE + RESULTS_PER_PAGE)

total_pages(total_items) == (total_items + RESULTS_PER_PAGE - 1) \div RESULTS_PER_PAGE

(***************************************************************************)
(* show_pagination (lines 186-197) on session page pg; click is the        *)
(* pagination button whose click triggered this run ("prev", "next" or     *)
(* "none").  st.button returns True in the run its click triggers,         *)
(* whatever `disabled` is in that run; the front end lets the user click   *)
(* only a button the previous run rendered enabled.                        *)
(***************************************************************************)
PageAfterPrev(pg, total_items, click) ==
    IF total_pages(total_items) > 1 /\ click = "prev" THEN pg - 1 ELSE pg
PageAfterNext(pg, total_items, click) ==
    IF total_pages(total_items) > 1 /\ click = "next"
    THEN PageAfterPrev(pg, total_items, click) + 1
    ELSE PageAfterPrev(pg, total_items, click)
PrevEnabled(pg, total_items) == total_pages(total_items) > 1 /\ ~(pg <= 1)
NextEnabled(pg, total_items, click) ==
    /\ total_pages(total_items) > 1
    /\ ~(PageAfterPrev(pg, total_items, click) >= total_pages(total_items))

\* The value a multiselect has in a run: a widget keeps the user's value while it
\* is rendered in every run with the same options and default (they are part of
\* the widget's identity); otherwise it starts from its default, all options.
AppProjectsValue(old_raw, new_raw) ==
    IF w_live /\ ProjectOptions(old_raw) = ProjectOptions(new_raw)
    THEN w_projects ELSE ProjectOptions(new_raw)
AppStatusesValue(old_raw, new_raw) ==
    IF w_live /\ StatusOptions(old_raw) = StatusOptions(new_raw)
    THEN w_statuses ELSE StatusOptions(new_raw)
AppDateValue == IF w_live THEN w_date ELSE "All"

appVars == <<raw_results, auth_verified, w_live, w_projects, w_date, w_statuses>>
uatVars == <<search_results, search_params, available_statuses,
             available_platforms, w_platform_live, w_platform>>

\* the rest of a run of main() of src/app.py, from "Display results" on
\* (lines 229-238), on session values raw, filt, pg and widget values wp, wd, ws
AppFinish(raw, filt, pg, wp, wd, ws, click) ==
    /\ raw_results' = raw
    /\ filtered_results' =
         IF raw # <<>> THEN show_results_filters(raw, wp, wd, ws) ELSE filt
    /\ w_live' = (raw # <<>>)
    /\ w_projects' = IF raw # <<>> THEN wp ELSE {}
    /\ w_statuses' = IF raw # <<>> THEN ws ELSE {}
    /\ w_date' = IF raw # <<>> THEN wd ELSE "All"
    /\ displayed' = (raw # <<>> /\ filtered_results' # <<>>)
    /\ shown_of' = IF raw # <<>> THEN filtered_results' ELSE <<>>
    /\ shown_page' = IF displayed' THEN pg ELSE 0
    /\ shown' = IF displayed' THEN display_results(filtered_results', pg) ELSE <<>>
    /\ page' = IF displayed' THEN PageAfterNext(pg, Len(filtered_results'), click) ELSE pg
    /\ btn_prev' = (displayed' /\ PrevEnabled(pg, Len(filtered_results')))
    /\ btn_next' = (displayed' /\ NextEnabled(pg, Len(filtered_results'), click))

\* search_jira of src/app.py as main() sees it: the issues of the response, or
\* an exception (raise_for_status, a timeout, a connection error).  The query
\* carries the text only; maxResults = 100 is above the size of DB.
AppSearchResult(ok, q) == [ok |-> ok, issues |-> IF ok THEN TextMatches(q) ELSE <<>>]

\* Editing the URL, username or password input (outside the form) reruns the script.
AppEditCreds ==
    /\ variant = "app"
    /\ UNCHANGED <<uatVars, jqVars, dtVars, ntVars, attVars>>
    /\ creds' = ~creds
    /\ auth_verified' = creds'
    /\ error_shown' = FALSE
    /\ event' = "creds"
    /\ AppFinish(raw_results, filtered_results, page,
                 AppProjectsValue(raw_results, raw_results), AppDateValue,
                 AppStatusesValue(raw_results, raw_results), "none")
    /\ UNCHANGED <<variant, last_ok, failed_since_ok>>

\* "Search Jira" with a query that is blank after strip(), or without credentials
AppSubmitNoSearch ==
    /\ variant = "app"
    /\ UNCHANGED <<uatVars, jqVars, dtVars, ntVars, attVars>>
    /\ \E blank \in BOOLEAN : blank \/ ~creds
    /\ auth_verified' = creds
    /\ error_shown' = FALSE
    /\ event' = "submit_nosearch"
    /\ AppFinish(raw_results, filtered_results, page,
                 AppProjectsValue(raw_results, raw_results), AppDateValue,
                 AppStatusesValue(raw_results, raw_results), "none")
    /\ UNCHANGED <<variant, creds, last_ok, failed_since_ok>>

\* "Search Jira" with a query and credentials, the search succeeding
AppSubmitOk ==
    /\ variant = "app"
    /\ UNCHANGED <<uatVars, jqVars, dtVars, ntVars, attVars>>
    /\ creds
    /\ \E q \in 0..MaxQuery :
         LET r == AppSearchResult(TRUE, q)
         IN  /\ AppFinish(r.issues, r.issues, 1,
                          AppProjectsValue(raw_results, r.issues), AppDateValue,
                          AppStatusesValue(raw_results, r.issues), "none")
             /\ last_ok' = r.issues
    /\ auth_verified' = creds
    /\ error_shown' = FALSE
    /\ failed_since_ok' = FALSE
    /\ event' = "submit_ok"
    /\ UNCHANGED <<variant, creds>>

\* "Search Jira" with a query and credentials, search_jira raising: st.error, return
AppSubmitFail ==
    /\ variant = "app"
    /\ UNCHANGED <<uatVars, jqVars, dtVars, ntVars, attVars>>
    /\ creds
    /\ ~AppSearchResult(FALSE, 0).ok
    /\ auth_verified' = creds
    /\ error_shown' = TRUE
    /\ failed_since_ok' = TRUE
    /\ event' = "submit_fail"
    /\ w_live' = FALSE
    /\ w_projects' = {}
    /\ w_statuses' = {}
    /\ w_date' = "All"
    /\ btn_prev' = FALSE
    /\ btn_next' = FALSE
    /\ shown' = <<>>
    /\ shown_of' = <<>>
    /\ shown_page' = 0
    /\ displayed' = FALSE
    /\ UNCHANGED <<variant, creds, raw_results, filtered_results, page, last_ok>>

\* the user changes the "Project Types" multiselect
AppSetProjects ==
    /\ variant = "app"
    /\ UNCHANGED <<uatVars, jqVars, dtVars, ntVars, attVars>>
    /\ w_live
    /\ \E sel \in SUBSET ProjectOptions(raw_results) :
         /\ sel # w_projects
         /\ AppFinish(raw_results, filtered_results, page, sel, w_date, w_statuses, "none")
    /\ auth_verified' = creds
    /\ error_shown' = FALSE
    /\ event' = "projects"
    /\ UNCHANGED <<variant, creds, last_ok, failed_since_ok>>

\* the user changes the "Updated Timeframe" selectbox
AppSetDate ==
    /\ variant = "app"
    /\ UNCHANGED <<uatVars, jqVars, dtVars, ntVars, attVars>>
    /\ w_live
    /\ \E d \in DateChoices :
         /\ d # w_date
         /\ AppFinish(raw_results, filtered_results, page, w_projects, d, w_statuses, "none")
    /\ auth_verified' = creds
    /\ error_shown' = FALSE
    /\ event' = "date"
    /\ UNCHANGED <<variant, creds, last_ok, failed_since_ok>>

\* the user changes the "Status" multiselect
AppSetStatuses ==
    /\ variant = "app"
    /\ UNCHANGED <<uatVars, jqVars, dtVars, ntVars, attVars>>
    /\ w_live
    /\ \E sel \in SUBSET StatusOptions(raw_results) :
         /\ sel # w_statuses
         /\ AppFinish(raw_results, filtered_results, page, w_projects, w_date, sel, "none")
    /\ auth_verified' = creds
    /\ error_shown' = FALSE
    /\ event' = "statuses"
    /\ UNCHANGED <<variant, creds, last_ok, failed_since_ok>>

\* the user clicks "Previous"
AppClickPrev ==
    /\ variant = "app"
    /\ UNCHANGED <<uatVars, jqVars, dtVars, ntVars, attVars>>
    /\ btn_prev
    /\ AppFinish(raw_results, filtered_results, page, w_projects, w_date, w_statuses, "prev")
    /\ auth_verified' = creds
    /\ error_shown' = FALSE
    /\ event' = "prev"
    /\ UNCHANGED <<variant, creds, last_ok, failed_since_ok>>

\* the user clicks "Next"
AppClickNext ==
    /\ variant = "app"
    /\ UNCHANGED <<uatVars, jqVars, dtVars, ntVars, attVars>>
    /\ btn_next
    /\ AppFinish(raw_results, filtered_results, page, w_projects, w_date, w_statuses, "next")
    /\ auth_verified' = creds
    /\ error_shown' = FALSE
    /\ event' = "next"
    /\ UNCHANGED <<variant, creds, last_ok, failed_since_ok>>

(***************************************************************************)
(* src/uat_app.py                                                          *)
(***************************************************************************)
\* the timeframes the modelled user picks, and TIME_FRAMES[time_frame]
TimeChoices == {"Last 30 days", "All time"}
TIME_FRAMES(t) ==
    CASE t = "Last 7 days" -> 7
      [] t = "Last 30 days" -> 30
      [] t = "Last 90 days" -> 90
      [] t = "Last 6 months" -> 180
      [] t = "Last year" -> 365
      [] t = "All time" -> 0
\* the project selections the modelled user submits
ProjectChoices == {{"RBOC"}, {"BCC", "RBOC"}}

\* The issues the ticketing system returns for the query search_jira compiles:
\* project IN (...) AND text AND status IN (...) AND Platform AND created,
\* each clause present as in lines 55-68; maxResults = 200 is above the size of DB.
UatServerMatch(q, projects, time_frame, statuses, platform) ==
    SelectSeq(TextMatches(q), LAMBDA i :
        /\ ProjectOf(i) \in projects
        /\ statuses # {} => StatusOf(i) \in statuses
        /\ platform # "" => PlatformOf(i) = platform
        /\ TIME_FRAMES(time_frame) # 0 => CreatedOf(i) <= TIME_FRAMES(time_frame))

\* search_jira as main() sees it (lines 72-87): the issues of the response, or []
\* after st.error when the request raised (a timeout, a connection error, an
\* HTTP error status: an empty project list compiles to "project IN ()", which
\* the ticketing system rejects).
UatSearchResult(ok, q, projects, time_frame, statuses, platform) ==
    [error |-> ~ok \/ projects = {},
     issues |-> IF ok /\ projects # {}
                THEN UatServerMatch(q, projects, time_frame, statuses, platform)
                ELSE <<>>]

\* get_available_filters
AvailableStatuses(issues) == SortedBy(StatusOptions(issues), StatusNames)
AvailablePlatforms(issues) ==
    SortedBy({PlatformOf(issues[i]) : i \in DOMAIN issues} \ {""}, PlatformNames)

\* lines 246-250: search_params.get("selected_statuses") empty or unset passes all
UatStatusFilter(issues, params) ==
    SelectSeq(issues, LAMBDA i :
        \/ ~params.set
        \/ params.selected_statuses = {}
        \/ StatusOf(i) \in params.selected_statuses)

\* lines 266-272
UatPlatformFilter(issues, platform) ==
    IF platform # "All Platforms"
    THEN SelectSeq(issues, LAMBDA i : PlatformOf(i) # "" /\ PlatformOf(i) = platform)
    ELSE issues

uat_total_pages(n) == (n + UAT_RESULTS_PER_PAGE - 1) \div UAT_RESULTS_PER_PAGE

\* lines 319-331: a click that passes its guard changes the page and reruns the script
UatPageAfter(pg, n, click) ==
    IF uat_total_pages(n) > 1 /\ click = "prev" /\ pg > 1 THEN pg - 1
    ELSE IF uat_total_pages(n) > 1 /\ click = "next" /\ pg < uat_total_pages(n) THEN pg + 1
    ELSE pg

\* The "Results Display" part of main() (lines 243-331) on the session values this
\* run has set (the primed session variables), page pg and platform choice wplat.
\* filtered_results is the local list of line 246, shown_of the list of line 275.
UatFinish(pg, wplat, click) ==
    /\ displayed' = (search_results' # <<>>)
    /\ filtered_results' =
         IF displayed' THEN UatStatusFilter(search_results', search_params') ELSE <<>>
    /\ page' = IF displayed' THEN UatPageAfter(pg, Len(filtered_results'), click) ELSE pg
    /\ w_platform_live' = (displayed' /\ available_platforms' # <<>>)
    /\ w_platform' = IF w_platform_live' THEN wplat ELSE "All Platforms"
    /\ shown_of' = IF displayed' THEN UatPlatformFilter(filtered_results', w_platform') ELSE <<>>
    /\ shown_page' = IF displayed' THEN page' ELSE 0
    /\ shown' = IF displayed'
                THEN PySlice(shown_of', (page' - 1) * UAT_RESULTS_PER_PAGE,
                             (page' - 1) * UAT_RESULTS_PER_PAGE + UAT_RESULTS_PER_PAGE)
                ELSE <<>>
    /\ btn_prev' = (displayed' /\ uat_total_pages(Len(filtered_results')) > 1)
    /\ btn_next' = btn_prev'

\* The value of the "Filter by Platform" selectbox in a run: its options are part
\* of its identity, and a widget that a run does not render loses its value.
UatPlatformValue ==
    IF w_platform_live /\ available_platforms' = available_platforms
    THEN w_platform ELSE "All Platforms"

\* "Search" without URL, username or password: a warning, no search
UatSubmitNoCreds ==
    /\ variant = "uat"
    /\ UNCHANGED <<appVars, jqVars, dtVars, ntVars, attVars>>
    /\ UNCHANGED <<search_results, search_params, available_statuses, available_platforms>>
    /\ UatFinish(page, UatPlatformValue, "none")
    /\ error_shown' = FALSE
    /\ event' = "submit_nosearch"
    /\ UNCHANGED <<variant, creds, last_ok, failed_since_ok>>

\* lines 205-241 with an else branch that also empties the available facet lists
UatAfterSearchClearing(r, selected_statuses) ==
    /\ search_results' = r.issues
    /\ error_shown' = r.error
    /\ available_statuses' = AvailableStatuses(r.issues)
    /\ available_platforms' = AvailablePlatforms(r.issues)
    /\ IF r.issues # <<>>
       THEN search_params' = [set |-> TRUE, selected_statuses |-> selected_statuses]
       ELSE UNCHANGED search_params
    /\ last_ok' = IF r.error THEN last_ok ELSE r.issues
    /\ failed_since_ok' = r.error
    /\ event' = IF r.error THEN "submit_fail" ELSE "submit_ok"
    /\ UatFinish(1, UatPlatformValue, "none")

\* lines 205-241 after search_jira returned r, then the results display
UatAfterSearch(r, selected_statuses) ==
    /\ search_results' = r.issues
    /\ error_shown' = r.error
    /\ IF r.issues # <<>>
       THEN /\ available_statuses' = AvailableStatuses(r.issues)
            /\ available_platforms' = AvailablePlatforms(r.issues)
            /\ search_params' = [set |-> TRUE, selected_statuses |-> selected_statuses]
       ELSE UNCHANGED <<available_statuses, available_platforms, search_params>>
    /\ last_ok' = IF r.error THEN last_ok ELSE r.issues
    /\ failed_since_ok' = r.error
    /\ event' = IF r.error THEN "submit_fail" ELSE "submit_ok"
    /\ UatFinish(1, UatPlatformValue, "none")

\* "Search" with credentials, the request answered
UatSubmitOk ==
    /\ variant = "uat"
    /\ UNCHANGED <<appVars, jqVars, dtVars, ntVars, attVars>>
    /\ \E q \in 0..MaxQuery, projects \in ProjectChoices, time_frame \in TimeChoices,
          selected_statuses \in SUBSET Range(available_statuses),
          selected_platform \in {""} \cup Range(available_platforms) :
         UatAfterSearch(UatSearchResult(TRUE, q, projects, time_frame,
                                        selected_statuses, selected_platform),
                        selected_statuses)
    /\ UNCHANGED <<variant, creds>>

\* "Search" with credentials, the request raising: no project selected (the
\* "None" button), or a network or HTTP error on any request
UatSubmitFail ==
    /\ variant = "uat"
    /\ UNCHANGED <<appVars, jqVars, dtVars, ntVars, attVars>>
    /\ \E ok \in BOOLEAN, projects \in {{}, {"RBOC"}} :
         /\ ~ok \/ projects = {}
         /\ UatAfterSearch(UatSearchResult(ok, 1, projects, "All time", {}, ""), {})
    /\ UNCHANGED <<variant, creds>>

\* the user changes the "Filter by Platform" selectbox
UatSetPlatform ==
    /\ variant = "uat"
    /\ UNCHANGED <<appVars, jqVars, dtVars, ntVars, attVars>>
    /\ w_platform_live
    /\ UNCHANGED <<search_results, search_params, available_statuses, available_platforms>>
    /\ \E p \in {"All Platforms"} \cup Range(available_platforms) :
         /\ p # w_platform
         /\ UatFinish(page, p, "none")
    /\ error_shown' = FALSE
    /\ event' = "platform"
    /\ UNCHANGED <<variant, creds, last_ok, failed_since_ok>>

\* the user clicks "Previous"
UatClickPrev ==
    /\ variant = "uat"
    /\ UNCHANGED <<appVars, jqVars, dtVars, ntVars, attVars>>
    /\ btn_prev
    /\ UNCHANGED <<search_results, search_params, available_statuses, available_platforms>>
    /\ UatFinish(page, UatPlatformValue, "prev")
    /\ error_shown' = FALSE
    /\ event' = "prev"
    /\ UNCHANGED <<variant, creds, last_ok, failed_since_ok>>

\* the user clicks "Next"
UatClickNext ==
    /\ variant = "uat"
    /\ UNCHANGED <<appVars, jqVars, dtVars, ntVars, attVars>>
    /\ btn_next
    /\ UNCHANGED <<search_results, search_params, available_statuses, available_platforms>>
    /\ UatFinish(page, UatPlatformValue, "next")
    /\ error_shown' = FALSE
    /\ event' = "next"
    /\ UNCHANGED <<variant, creds, last_ok, failed_since_ok>>

(***************************************************************************)
(* Initial values of the variables of the specifications that are not      *)
(* running.                                                                *)
(***************************************************************************)
UiIdle ==
    /\ variant = "none" /\ creds = FALSE
    /\ raw_results = <<>> /\ filtered_results = <<>> /\ page = 1
    /\ auth_verified = FALSE
    /\ w_live = FALSE /\ w_projects = {} /\ w_date = "All" /\ w_statuses = {}
    /\ btn_prev = FALSE /\ btn_next = FALSE
    /\ search_results = <<>> /\ search_params = [set |-> FALSE, selected_statuses |-> {}]
    /\ available_statuses = <<>> /\ available_platforms = <<>>
    /\ w_platform_live = FALSE /\ w_platform = "All Platforms"
    /\ shown = <<>> /\ shown_of = <<>> /\ shown_page = 0 /\ displayed = FALSE
    /\ error_shown = FALSE
    /\ event = "init" /\ last_ok = <<>> /\ failed_since_ok = FALSE
JqIdle ==
    /\ jq_pc = "idle" /\ jq_query = <<>> /\ jq_projects = <<>> /\ jq_statuses = <<>>
    /\ jq_platform = "" /\ jq_time = "All time" /\ jq_app = <<>> /\ jq_uat = <<>>
DtIdle ==
    /\ dt_pc = "idle" /\ dt_py311 = FALSE /\ dt_base = <<>> /\ dt_frac = <<>>
    /\ dt_zone = <<>> /\ dt_with = [now |-> TRUE, t |-> 0]
    /\ dt_without = [now |-> TRUE, t |-> 0]
NtIdle ==
    /\ nt_app = "none" /\ nt_clock = 0 /\ nt_submits = 0 /\ nt_calls = <<>>
    /\ nt_attempts = 0 /\ nt_outcome = "none" /\ nt_surfaced = FALSE
AtIdle ==
    /\ at_pc = "idle" /\ at_page = <<>> /\ at_rendered = <<>> /\ at_exc = ""
    /\ at_controls = FALSE
OcIdle ==
    /\ oc_cache = {} /\ oc_runs = <<>> /\ oc_first = <<>> /\ oc_requests = 0
    /\ oc_last = [url |-> "", token |-> <<>>, text |-> "", diag |-> FALSE, hit |-> FALSE]
AttIdle == AtIdle /\ OcIdle

(***************************************************************************)
(* The UI specification: the session state after the first run of the      *)
(* script (lines 17-24 of app.py, init_session_state of uat_app.py).       *)
(***************************************************************************)
Init ==
    /\ variant \in {"app", "uat"}
    /\ creds = FALSE
    /\ raw_results = <<>> /\ filtered_results = <<>> /\ page = 1
    /\ auth_verified = FALSE
    /\ w_live = FALSE /\ w_projects = {} /\ w_date = "All" /\ w_statuses = {}
    /\ btn_prev = FALSE /\ btn_next = FALSE
    /\ search_results = <<>> /\ search_params = [set |-> FALSE, selected_statuses |-> {}]
    /\ available_statuses = <<>> /\ available_platforms = <<>>
    /\ w_platform_live = FALSE /\ w_platform = "All Platforms"
    /\ shown = <<>> /\ shown_of = <<>> /\ shown_page = 0 /\ displayed = FALSE
    /\ error_shown = FALSE
    /\ event = "init" /\ last_ok = <<>> /\ failed_since_ok = FALSE
    /\ JqIdle /\ DtIdle /\ NtIdle /\ AttIdle

Next ==
    \/ AppEditCreds
    \/ AppSubmitNoSearch
    \/ AppSubmitOk
    \/ AppSubmitFail
    \/ AppSetProjects
    \/ AppSetDate
    \/ AppSetStatuses
    \/ AppClickPrev
    \/ AppClickNext
    \/ UatSubmitNoCreds
    \/ UatSubmitOk
    \/ UatSubmitFail
    \/ UatSetPlatform
    \/ UatClickPrev
    \/ UatClickNext

Spec == Init /\ [][Next]_vars

(***************************************************************************)
(* The query builders: build_jql of src/app.py, sanitize_jql and the       *)
(* first part of search_jira of src/uat_app.py.                            *)
(*                                                                         *)
(* A string is a sequence of tokens [src, s]: s is the text of the token   *)
(* and src says where it comes from: "lit" is text of the program's        *)
(* f-string templates, "text" one character of the user's search text,     *)
(* "project", "status", "platform", "time" a value of that facet.  The     *)
(* compiled query is the concatenation of the s fields.                    *)
(***************************************************************************)
Lit(str) == <<[src |-> "lit", s |-> str]>>
Val(kind, str) == <<[src |-> kind, s |-> str]>>
Text(chars) == [i \in DOMAIN chars |-> [src |-> "text", s |-> chars[i]]]

QUOTE == "\""
BACKSLASH == "\\"
QueryChars == {"B", "u", "g", " ", QUOTE, BACKSLASH}
QueryStrings(n) == UNION {[1..k -> QueryChars] : k \in 0..n}

\* str.lower() on one character
LowerChar(c) == IF c = "B" THEN "b" ELSE c
Lower(chars) == [i \in DOMAIN chars |-> LowerChar(chars[i])]

\* query.split(): the maximal runs of non-whitespace characters
RECURSIVE SplitFrom(_, _)
SplitFrom(chars, word) ==
    IF chars = <<>> THEN (IF word = <<>> THEN <<>> ELSE <<word>>)
    ELSE IF Head(chars) = " "
         THEN (IF word = <<>> THEN <<>> ELSE <<word>>) \o SplitFrom(Tail(chars), <<>>)
         ELSE SplitFrom(Tail(chars), Append(word, Head(chars)))
Split(chars) == SplitFrom(chars, <<>>)

\* sep.join(parts), parts a sequence of token sequences
RECURSIVE Join(_, _)
Join(parts, sep) ==
    IF parts = <<>> THEN <<>>
    ELSE IF Len(parts) = 1 THEN parts[1]
    ELSE parts[1] \o sep \o Join(Tail(parts), sep)

BoostWords == {<<"e", "r", "r", "o", "r">>, <<"f", "a", "i", "l">>,
               <<"c", "r", "a", "s", "h">>, <<"b", "u", "g">>}

\* lines 33-38 of build_jql: one word of the search text, quoted and boosted
Term(word) ==
    IF Lower(word) \in BoostWords THEN Lit(QUOTE) \o Text(word) \o Lit("\"^3")
    ELSE IF Len(word) > 3 THEN Lit(QUOTE) \o Text(word) \o Lit("\"^2")
    ELSE Lit(QUOTE) \o Text(word) \o Lit(QUOTE)

\* lines 30-41 of build_jql
TextQuery(query) ==
    IF QUOTE \notin Range(query)
    THEN Join([i \in DOMAIN Split(query) |-> Term(Split(query)[i])], Lit(" AND "))
    ELSE Text(query)

\* build_jql(query, project_filter, date_filter); "" stands for date_filter None
build_jql(query, project_filter, date_filter) ==
    LET text_query == TextQuery(query)
        text_part == Lit("(summary ~ \"") \o text_query
                       \o Lit("\"^3 OR description ~ \"") \o text_query
                       \o Lit("\"^2 OR comment ~ \"") \o text_query \o Lit("\")")
        project_part ==
            Lit("project in (")
              \o Join([i \in DOMAIN project_filter |-> Val("project", project_filter[i])],
                      Lit(","))
              \o Lit(")")
        date_part == Lit("updated >= \"") \o Val("time", date_filter) \o Lit(QUOTE)
        jql_parts == <<text_part>>
                       \o (IF project_filter # <<>> THEN <<project_part>> ELSE <<>>)
                       \o (IF date_filter # "" THEN <<date_part>> ELSE <<>>)
    IN  Join(jql_parts, Lit(" AND ")) \o Lit(" ORDER BY updated DESC")

\* sanitize_jql: query.replace('"', '\\"')
RECURSIVE sanitize_jql(_)
sanitize_jql(query) ==
    IF query = <<>> THEN <<>>
    ELSE (IF Head(query) = QUOTE
          THEN Lit(BACKSLASH) \o Text(<<QUOTE>>)
          ELSE Text(<<Head(query)>>)) \o sanitize_jql(Tail(query))

\* str(TIME_FRAMES[time_frame])
DaysText(time_frame) ==
    CASE TIME_FRAMES(time_frame) = 7 -> "7"
      [] TIME_FRAMES(time_frame) = 30 -> "30"
      [] TIME_FRAMES(time_frame) = 90 -> "90"
      [] TIME_FRAMES(time_frame) = 180 -> "180"
      [] TIME_FRAMES(time_frame) = 365 -> "365"

\* ",".join(f"\"{p}\"" for p in values)
QuotedList(kind, values) ==
    Join([i \in DOMAIN values |-> Lit(QUOTE) \o Val(kind, values[i]) \o Lit(QUOTE)],
         Lit(","))

\* a project clause that lists the projects in sorted order
UatProjectClauseSorted(projects) ==
    Lit("project IN (")
      \o QuotedList("project", SortedBy(Range(projects), <<"BCC", "NOD", "RBOC">>))
      \o Lit(")")

\* line 55: the project clause
UatProjectClause(projects) ==
    Lit("project IN (") \o QuotedList("project", projects) \o Lit(")")

\* lines 57-59: the text clause
UatTextClause(query) ==
    IF query # <<>>
    THEN Lit(" AND ") \o Lit("(text ~ \"") \o sanitize_jql(query)
           \o Lit("\" OR attachmentContent ~ \"") \o sanitize_jql(query) \o Lit("\")")
    ELSE <<>>

\* lines 61-68: the status, platform and time clauses
UatFacetClauses(time_frame, statuses, platform) ==
    (IF statuses # <<>>
     THEN Lit(" AND ") \o Lit("status IN (") \o QuotedList("status", statuses) \o Lit(")")
     ELSE <<>>)
    \o (IF platform # ""
        THEN Lit(" AND ") \o Lit("\"Platform\" ~ \"") \o Val("platform", platform)
               \o Lit(QUOTE)
        ELSE <<>>)
    \o (IF TIME_FRAMES(time_frame) # 0
        THEN Lit(" AND ") \o Lit("created >= -") \o Val("time", DaysText(time_frame))
               \o Lit("d")
        ELSE <<>>)

\* the query with the text clause moved in front of the project clause
UatJqlTextFirst(query, projects, time_frame, statuses, platform) ==
    (IF query # <<>>
     THEN SubSeq(UatTextClause(query), 2, Len(UatTextClause(query))) \o Lit(" AND ")
     ELSE <<>>)
    \o UatProjectClause(projects)
    \o UatFacetClauses(time_frame, statuses, platform)
    \o Lit(" ORDER BY created DESC, project ASC")

\* lines 55-70 of search_jira: the jql string
UatJql(query, projects, time_frame, statuses, platform) ==
    UatProjectClause(projects)
    \o UatTextClause(query)
    \o UatFacetClauses(time_frame, statuses, platform)
    \o Lit(" ORDER BY created DESC, project ASC")

(***************************************************************************)
(* SpecJql: the builders applied to one request.                           *)
(***************************************************************************)
FacetProjects == {"BCC", "NOD", "RBOC"}
\* the lists without repetition of at most n members of S
ListsOf(S, n) ==
    UNION {{f \in [1..k -> S] : \A i, j \in 1..k : i # j => f[i] # f[j]} : k \in 0..n}
\* the date_filter build_jql is given for a timeframe
DateArg(time_frame) == IF TIME_FRAMES(time_frame) = 0 THEN "" ELSE "2024-01-01"

InitJql ==
    /\ jq_pc = "start"
    /\ \/ /\ jq_query \in QueryStrings(MaxQueryLen)
          /\ jq_projects = <<"RBOC">>
          /\ jq_statuses = <<>>
          /\ jq_platform = ""
          /\ jq_time = "Last 7 days"
       \/ /\ jq_query \in {<<>>, <<"u">>}
          /\ jq_projects \in ListsOf(FacetProjects, MaxFacetLen)
          /\ jq_statuses \in ListsOf({"Done", "Open"}, 2)
          /\ jq_platform \in {"", "iOS"}
          /\ jq_time \in {"Last 7 days", "Last year", "All time"}
    /\ jq_app = <<>> /\ jq_uat = <<>>
    /\ UiIdle /\ DtIdle /\ NtIdle /\ AttIdle

\* src/app.py: build_jql on the request
JqBuildApp ==
    /\ jq_pc = "start"
    /\ jq_app' = build_jql(jq_query, jq_projects, DateArg(jq_time))
    /\ jq_pc' = "app"
    /\ UNCHANGED <<jq_query, jq_projects, jq_statuses, jq_platform, jq_time, jq_uat>>
    /\ UNCHANGED <<uiVars, dtVars, ntVars, attVars>>

\* src/uat_app.py: the jql of search_jira on the request
JqSearchUat ==
    /\ jq_pc = "app"
    /\ jq_uat' = UatJql(jq_query, jq_projects, jq_time, jq_statuses, jq_platform)
    /\ jq_pc' = "done"
    /\ UNCHANGED <<jq_query, jq_projects, jq_statuses, jq_platform, jq_time, jq_app>>
    /\ UNCHANGED <<uiVars, dtVars, ntVars, attVars>>

NextJql ==
    \/ JqBuildApp
    \/ JqSearchUat

SpecJql == InitJql /\ [][NextJql]_vars

(***************************************************************************)
(* parse_jira_date of src/app.py.  A timestamp is a sequence of            *)
(* characters.  The result is [now, t]: now = TRUE when the function       *)
(* returned datetime.now(timezone.utc) from its except branch (t is then   *)
(* not used), otherwise t is the instant parsed, in seconds from 00:00 UTC *)
(* of the day of the timestamps of the model.  astimezone() changes the    *)
(* zone of the value, not its instant.                                     *)
(***************************************************************************)
Digits == {"0", "1", "2", "3", "4", "5", "6", "7", "8", "9"}
DigitVal(c) ==
    CASE c = "0" -> 0 [] c = "1" -> 1 [] c = "2" -> 2 [] c = "3" -> 3 [] c = "4" -> 4
      [] c = "5" -> 5 [] c = "6" -> 6 [] c = "7" -> 7 [] c = "8" -> 8 [] c = "9" -> 9
\* the number written by the two characters at i and i + 1, or -1
TwoDigits(str, i) ==
    IF i + 1 <= Len(str) /\ str[i] \in Digits /\ str[i + 1] \in Digits
    THEN 10 * DigitVal(str[i]) + DigitVal(str[i + 1])
    ELSE -1

\* the position of the first c in str, or 0
RECURSIVE IndexFrom(_, _, _)
IndexFrom(str, c, i) ==
    IF i > Len(str) THEN 0 ELSE IF str[i] = c THEN i ELSE IndexFrom(str, c, i + 1)
IndexOf(str, c) == IndexFrom(str, c, 1)
\* str.split(c)[0]
BeforeFirst(str, c) ==
    IF IndexOf(str, c) = 0 THEN str ELSE SubSeq(str, 1, IndexOf(str, c) - 1)
\* the length of the run of digits that starts at position i
RECURSIVE DigitRun(_, _)
DigitRun(str, i) ==
    IF i <= Len(str) /\ str[i] \in Digits THEN 1 + DigitRun(str, i + 1) ELSE 0

\* the UTC offset fromisoformat reads from the end of a string: +HH:MM or -HH:MM,
\* nothing (a naive value), and from Python 3.11 on also Z
IsoOffset(z, py311) ==
    IF z = <<>> THEN [ok |-> TRUE, off |-> 0]
    ELSE IF py311 /\ z = <<"Z">> THEN [ok |-> TRUE, off |-> 0]
    ELSE IF /\ Len(z) = 6 /\ z[1] \in {"+", "-"} /\ z[4] = ":"
            /\ TwoDigits(z, 2) \in 0..23 /\ TwoDigits(z, 5) \in 0..59
         THEN [ok |-> TRUE,
               off |-> (IF z[1] = "-" THEN -1 ELSE 1)
                         * (TwoDigits(z, 2) * 3600 + TwoDigits(z, 5) * 60)]
    ELSE [ok |-> FALSE, off |-> 0]

\* what follows the seconds: an optional fraction, then the offset.  Up to Python
\* 3.10 the fraction has 3 or 6 digits exactly; from 3.11 on any number, at least 1.
IsoTail(rest, py311) ==
    IF rest # <<>> /\ rest[1] = "."
    THEN LET k == DigitRun(rest, 2)
         IN  IF (py311 /\ k >= 1) \/ (~py311 /\ k \in {3, 6})
             THEN IsoOffset(SubSeq(rest, k + 2, Len(rest)), py311)
             ELSE [ok |-> FALSE, off |-> 0]
    ELSE IsoOffset(rest, py311)

\* datetime.fromisoformat on YYYY-MM-DDTHH:MM:SS[.f][offset]; ok = FALSE stands
\* for ValueError.  A value without offset is read by astimezone() in the zone
\* of the host, taken to be UTC.
fromisoformat(str, py311) ==
    IF /\ Len(str) >= 19
       /\ \A i \in {1, 2, 3, 4, 6, 7, 9, 10} : str[i] \in Digits
       /\ str[5] = "-" /\ str[8] = "-" /\ str[14] = ":" /\ str[17] = ":"
       /\ TwoDigits(str, 12) \in 0..23
       /\ TwoDigits(str, 15) \in 0..59
       /\ TwoDigits(str, 18) \in 0..59
       /\ IsoTail(SubSeq(str, 20, Len(str)), py311).ok
    THEN [ok |-> TRUE,
          t |-> TwoDigits(str, 12) * 3600 + TwoDigits(str, 15) * 60 + TwoDigits(str, 18)
                  - IsoTail(SubSeq(str, 20, Len(str)), py311).off]
    ELSE [ok |-> FALSE, t |-> 0]

\* try: ... except ValueError: return datetime.now(timezone.utc)
OrNow(parsed) == IF parsed.ok THEN [now |-> FALSE, t |-> parsed.t] ELSE [now |-> TRUE, t |-> 0]

\* line 71: date_str.split('.')[0] + date_str[-6:]
StripFraction(date_str) ==
    IF "." \in Range(date_str)
    THEN BeforeFirst(date_str, ".") \o PySlice(date_str, -6, Len(date_str))
    ELSE date_str

\* parse_jira_date (lines 67-78)
parse_jira_date(date_str, py311) ==
    LET d == StripFraction(date_str)
    IN  IF d # <<>> /\ d[Len(d)] = "Z"
        THEN OrNow(fromisoformat(SubSeq(d, 1, Len(d) - 1) \o <<"+", "0", "0", ":", "0", "0">>,
                                 py311))
        ELSE IF "+" \in Range(d) \/ "-" \in Range(PySlice(d, -6, Len(d)))
        THEN OrNow(fromisoformat(d, py311))
        ELSE OrNow(fromisoformat(d \o <<"+", "0", "0", ":", "0", "0">>, py311))

(***************************************************************************)
(* SpecDate: parse_jira_date on a timestamp with fractional seconds and on *)
(* the same timestamp without them.                                        *)
(***************************************************************************)
DateBases ==
    {<<"2", "0", "2", "4", "-", "0", "1", "-", "1", "5", "T", "1", "0", ":", "3", "0", ":">>
        \o sec : sec \in {<<"0", "0">>, <<"5", "9">>}}
ZoneSuffixes == {<<>>, <<"Z">>, <<"+", "0", "5", ":", "3", "0">>,
                 <<"-", "0", "8", ":", "0", "0">>}
FractionDigits == {"0", "7"}

InitDate ==
    /\ dt_pc = "start"
    /\ dt_py311 \in BOOLEAN
    /\ dt_base \in DateBases
    /\ dt_frac \in UNION {[1..k -> FractionDigits] : k \in 1..MaxFrac}
    /\ dt_zone \in ZoneSuffixes
    /\ dt_with = [now |-> TRUE, t |-> 0] /\ dt_without = [now |-> TRUE, t |-> 0]
    /\ UiIdle /\ JqIdle /\ NtIdle /\ AttIdle

\* parse_jira_date on the timestamp with its fractional seconds
DtParseWith ==
    /\ dt_pc = "start"
    /\ dt_with' = parse_jira_date(dt_base \o <<".">> \o dt_frac \o dt_zone, dt_py311)
    /\ dt_pc' = "with"
    /\ UNCHANGED <<dt_py311, dt_base, dt_frac, dt_zone, dt_without>>
    /\ UNCHANGED <<uiVars, jqVars, ntVars, attVars>>

\* parse_jira_date on the timestamp with the fractional seconds removed
DtParseWithout ==
    /\ dt_pc = "with"
    /\ dt_without' = parse_jira_date(dt_base \o dt_zone, dt_py311)
    /\ dt_pc' = "done"
    /\ UNCHANGED <<dt_py311, dt_base, dt_frac, dt_zone, dt_with>>
    /\ UNCHANGED <<uiVars, jqVars, ntVars, attVars>>

NextDate ==
    \/ DtParseWith
    \/ DtParseWithout

SpecDate == InitDate /\ [][NextDate]_vars

(***************************************************************************)
(* The network call of search_jira (src/app.py lines 63-65, src/uat_app.py *)
(* lines 72-87).  answers is what the ticketing system would answer to the *)
(* first, second and third request of one search: "ok", "timeout" (the     *)
(* timeout of requests.get expiring), "500", "403" or "429" (the status    *)
(* raise_for_status raises for).                                           *)
(***************************************************************************)
Answers == {"ok", "timeout", "500", "403", "429"}
Transient == {"timeout", "500"}

\* a search that tries again after a transient failure, three times at most
NetworkCallRetrying(answers) ==
    IF answers[1] \notin Transient THEN [attempts |-> 1, outcome |-> answers[1]]
    ELSE IF answers[2] \notin Transient THEN [attempts |-> 2, outcome |-> answers[2]]
    ELSE [attempts |-> 3, outcome |-> answers[3]]

\* requests.get is called once; its exception, or that of raise_for_status,
\* leaves search_jira (app.py) or is caught at its end (uat_app.py)
NetworkCall(answers) == [attempts |-> 1, outcome |-> answers[1]]

\* a search that waits until two seconds have passed since the call before it
CallTimeThrottled(submitted, calls) ==
    IF calls = <<>> THEN submitted
    ELSE Max(submitted, calls[Len(calls)].called + 2)

\* the time requests.get is called by a search submitted at `submitted`: no
\* statement of either script waits before the call
CallTime(submitted, calls) == submitted

\* st.error is reached: main()'s except branch (app.py line 226), or the except
\* branch of search_jira (uat_app.py line 86)
Surfaced(outcome) == outcome # "ok"

InitNet ==
    /\ nt_app \in {"app", "uat"}
    /\ nt_clock = 0 /\ nt_submits = 0 /\ nt_calls = <<>>
    /\ nt_attempts = 0 /\ nt_outcome = "none" /\ nt_surfaced = FALSE
    /\ UiIdle /\ JqIdle /\ DtIdle /\ AttIdle

\* a second passes
NtTick ==
    /\ nt_clock < MaxClock
    /\ nt_clock' = nt_clock + 1
    /\ UNCHANGED <<nt_app, nt_submits, nt_calls, nt_attempts, nt_outcome, nt_surfaced>>
    /\ UNCHANGED <<uiVars, jqVars, dtVars, attVars>>

\* the user submits a search with credentials and the script runs search_jira to
\* its end; the request takes dur seconds (under a second, or more)
NtSearch ==
    /\ nt_submits < MaxSearches
    /\ \E answers \in [1..3 -> Answers], dur \in 0..1 :
         LET called == CallTime(nt_clock, nt_calls)
             r == NetworkCall(answers)
         IN  /\ called + dur <= MaxClock
             /\ nt_calls' = Append(nt_calls, [submitted |-> nt_clock, called |-> called])
             /\ nt_attempts' = r.attempts
             /\ nt_outcome' = r.outcome
             /\ nt_surfaced' = Surfaced(r.outcome)
             /\ nt_clock' = called + dur
    /\ nt_submits' = nt_submits + 1
    /\ UNCHANGED nt_app
    /\ UNCHANGED <<uiVars, jqVars, dtVars, attVars>>

NextNet ==
    \/ NtTick
    \/ NtSearch

SpecNet == InitNet /\ [][NextNet]_vars

(***************************************************************************)
(* The result loop of src/uat_app.py (lines 275-331) on one page of        *)
(* issues, attachments included.  An issue of the page is its              *)
(* fields.attachment: has tells whether the issue has the field, atts is   *)
(* the sequence of the mimeType of its attachments.                        *)
(*                                                                         *)
(* get_image_base64, called at line 301, is defined nowhere in the         *)
(* repository and imported by neither script: evaluating the name raises   *)
(* NameError, which no statement of main() catches, so the run of the      *)
(* script ends there.                                                      *)
(***************************************************************************)
MimeTypes == {"image/png", "application/pdf"}
\* att['mimeType'].startswith('image/')
IsImage(mime) == mime = "image/png"

\* line 301: the exception the call raises ("" for none) and the value it returns
get_image_base64(content, auth) == [raised |-> "NameError", value |-> ""]

\* lines 298-316 from attachment k on: the exception that leaves the loop, "" for none
RECURSIVE RenderAttachments(_, _)
RenderAttachments(atts, k) ==
    IF k > Len(atts) THEN ""
    ELSE IF IsImage(atts[k])
         THEN LET r == get_image_base64(k, "auth")
              IN  IF r.raised # "" THEN r.raised ELSE RenderAttachments(atts, k + 1)
         ELSE RenderAttachments(atts, k + 1)

\* lines 275-316 from issue i on: the issues rendered to their end, and the
\* exception that ended the loop
RECURSIVE RenderIssues(_, _)
RenderIssues(issues, i) ==
    IF i > Len(issues) THEN [rendered |-> <<>>, exc |-> ""]
    ELSE LET e == IF issues[i].has THEN RenderAttachments(issues[i].atts, 1) ELSE ""
         IN  IF e # "" THEN [rendered |-> <<>>, exc |-> e]
             ELSE LET rest == RenderIssues(issues, i + 1)
                  IN  [rendered |-> <<i>> \o rest.rendered, exc |-> rest.exc]

\* the attachment fields of an issue, and the pages the search returns
AttachmentFields ==
    {[has |-> FALSE, atts |-> <<>>]}
      \cup {[has |-> TRUE, atts |-> a] :
               a \in UNION {[1..n -> MimeTypes] : n \in 0..MaxAttachments}}
InitAtt ==
    /\ at_pc = "ready"
    /\ at_page \in UNION {[1..n -> AttachmentFields] : n \in 1..MaxPageIssues}
    /\ at_rendered = <<>> /\ at_exc = "" /\ at_controls = FALSE
    /\ OcIdle
    /\ UiIdle /\ JqIdle /\ DtIdle /\ NtIdle

\* one run of the script displays the page
AtDisplay ==
    /\ at_pc = "ready"
    /\ LET r == RenderIssues(at_page, 1)
       IN  /\ at_rendered' = r.rendered
           /\ at_exc' = r.exc
           /\ at_controls' = (r.exc = "")
    /\ at_pc' = "done"
    /\ UNCHANGED at_page
    /\ UNCHANGED <<uiVars, jqVars, dtVars, ntVars, ocVars>>

NextAtt ==
    \/ AtDisplay

SpecAtt == InitAtt /\ [][NextAtt]_vars

(***************************************************************************)
(* extract_text of src/uat_app.py (lines 105-116) under st.cache_data, as  *)
(* the handler of a "Run OCR" button calls it (lines 306-310).  The store  *)
(* of st.cache_data belongs to the server process: every session, search   *)
(* and user shares it, and without ttl or max_entries an entry stays until *)
(* the process ends.  The handler is reached only when line 301 has        *)
(* returned an image; SpecOcr takes the requests as given.                 *)
(***************************************************************************)
ContentRefs == {"att/1", "att/2"}
Usernames == {<<"a">>, <<"b">>}
Passwords == {<<"p">>, <<"p", "|", "w">>}
\* line 308: f"{username}|{password}"
AuthToken(username, password) == username \o <<"|">> \o password
\* len(_auth_token.split("|"))
SplitParts(token) == 1 + Len(SelectSeq(token, LAMBDA c : c = "|"))

\* What one execution of lines 111-113 meets: the stage that raises
\* ("download": requests.get, "decode": Image.open, "ocr": image_to_string),
\* or the text pytesseract reads.
Extractions == {"download", "decode", "ocr", "text A", "text B", ""}
Raises(x) == x \in {"download", "decode", "ocr"}

\* the body of extract_text: the text returned, whether st.error was called, and
\* whether requests.get was called
extract_text(_auth_token, image_url, x) ==
    IF SplitParts(_auth_token) # 2
    THEN [text |-> "", diag |-> TRUE, downloaded |-> FALSE]
    ELSE IF Raises(x)
         THEN [text |-> "", diag |-> TRUE, downloaded |-> TRUE]
         ELSE [text |-> x, diag |-> FALSE, downloaded |-> TRUE]

\* a cache keyed by the credentials as well as the content reference
CacheKeyWithToken(_auth_token, image_url) == <<_auth_token, image_url>>

\* st.cache_data hashes the arguments whose name does not start with an
\* underscore: image_url alone
CacheKey(_auth_token, image_url) == <<image_url>>

\* line 105: the cached function.  A hit returns the stored value and replays
\* the st.error the stored run made; a miss runs the body and stores what it
\* returns, the "" of the except branch included.
cache_data(cache, _auth_token, image_url, x) ==
    LET key == CacheKey(_auth_token, image_url)
        hits == {c \in cache : c.key = key}
    IN  IF hits # {}
        THEN LET c == CHOOSE c \in hits : TRUE
             IN  [text |-> c.text, diag |-> c.diag, ran |-> FALSE,
                  downloaded |-> FALSE, cache |-> cache]
        ELSE LET r == extract_text(_auth_token, image_url, x)
             IN  [text |-> r.text, diag |-> r.diag, ran |-> TRUE,
                  downloaded |-> r.downloaded,
                  cache |-> cache \cup {[key |-> key, text |-> r.text, diag |-> r.diag]}]

InitOcr ==
    /\ oc_cache = {}
    /\ oc_runs = [u \in ContentRefs |-> 0]
    /\ oc_first = [u \in ContentRefs |-> [n |-> 0, text |-> ""]]
    /\ oc_requests = 0
    /\ oc_last = [url |-> "", token |-> <<>>, text |-> "", diag |-> FALSE, hit |-> FALSE]
    /\ AtIdle
    /\ UiIdle /\ JqIdle /\ DtIdle /\ NtIdle

\* a user, in any session and after any search, clicks "Run OCR" on an attachment
OcRequest ==
    /\ oc_requests < MaxOcrRequests
    /\ \E username \in Usernames, password \in Passwords, url \in ContentRefs,
          x \in Extractions :
         LET auth_token == AuthToken(username, password)
             r == cache_data(oc_cache, auth_token, url, x)
         IN  /\ oc_cache' = r.cache
             /\ oc_runs' = [oc_runs EXCEPT ![url] = @ + (IF r.ran THEN 1 ELSE 0)]
             /\ oc_first' = [oc_first EXCEPT ![url] =
                               [n |-> @.n + 1,
                                text |-> IF @.n = 0 THEN r.text ELSE @.text]]
             /\ oc_last' = [url |-> url, token |-> auth_token, text |-> r.text,
                            diag |-> r.diag, hit |-> ~r.ran]
    /\ oc_requests' = oc_requests + 1
    /\ UNCHANGED <<uiVars, jqVars, dtVars, ntVars, atVars>>

NextOcr ==
    \/ OcRequest

SpecOcr == InitOcr /\ [][NextOcr]_vars

(***************************************************************************)
(* Claims about the UI state machines (checked under Spec).                *)
(***************************************************************************)
\* the list the session holds as retrieved
Retrieved == IF variant = "app" THEN raw_results ELSE search_results
FilterEvents == {"projects", "date", "statuses", "platform"}
PagesOf(n) == (n + RESULTS_PER_PAGE - 1) \div RESULTS_PER_PAGE

\* C1: whenever a non-empty filtered list is displayed, the page number used to
\* slice it lies in [1, ceil(n / 10)], n the length of that list, and the page
\* rendered is not empty.
C1_PageWithinRange ==
    (displayed /\ shown_of # <<>>) =>
        /\ 1 <= shown_page
        /\ shown_page <= PagesOf(Len(shown_of))
        /\ shown # <<>>

\* C2: the run of a failed search shows an error and no issue, and no issue is
\* shown in any later run until a search succeeds.
C2_NoStaleAfterFailure ==
    /\ event = "submit_fail" => (error_shown /\ shown = <<>>)
    /\ failed_since_ok => shown = <<>>

\* C3: an empty facet selection is no constraint: with an empty status selection
\* the status filter passes its whole input, in order; with every facet empty or
\* unset the filtered list is the retrieved list.
C3_EmptySelectionNoConstraint ==
    /\ (variant = "app" /\ w_live /\ w_statuses = {}) =>
          filtered_results = FilterDate(FilterProjects(raw_results, w_projects), w_date)
    /\ (variant = "app" /\ w_live /\ w_statuses = {} /\ w_projects = {} /\ w_date = "All") =>
          filtered_results = raw_results
    /\ (variant = "uat" /\ displayed /\ search_params.selected_statuses = {}) =>
          filtered_results = search_results
    /\ (variant = "uat" /\ displayed /\ w_platform = "All Platforms") =>
          shown_of = filtered_results

\* the user has emptied the status and the project selection over a retrieved
\* list of several issues
C3_Witness ==
    /\ variant = "app" /\ event = "statuses"
    /\ w_statuses = {} /\ w_projects = {} /\ w_date = "All"
    /\ Len(raw_results) > 1 /\ filtered_results = raw_results

\* C4: every filtered list is an order-preserving subsequence of the retrieved
\* list, and after every filter change the retrieved list is still what the last
\* successful search returned.
C4_FiltersPreserveRetrieved ==
    /\ IsSubseq(filtered_results, Retrieved)
    /\ IsSubseq(shown_of, Retrieved)
    /\ IsSubseq(shown, shown_of)
    /\ event \in FilterEvents => (Retrieved # <<>> /\ Retrieved = last_ok)

\* a filter change has removed some, not all, issues of the retrieved list
C4_Witness ==
    /\ event \in FilterEvents
    /\ shown_of # <<>> /\ shown_of # Retrieved
    /\ Retrieved = last_ok

\* the available facet lists are those get_available_filters derives from issues
FacetsDerivedFrom(issues) ==
    /\ available_statuses' = AvailableStatuses(issues)
    /\ available_platforms' = AvailablePlatforms(issues)
SearchEvents == {"submit_ok", "submit_fail"}

\* C13 as stated: after every search of uat_app.py, one that returns no issue
\* or fails included, the available status and platform lists are exactly the
\* distinct statuses and platforms of the result set held, and a filter or
\* pagination action does not change them.
C13_FacetsOfHeldResults ==
    [][variant = "uat" =>
         /\ event' \in SearchEvents => FacetsDerivedFrom(search_results')
         /\ event' \in {"platform", "prev", "next"} =>
              UNCHANGED <<available_statuses, available_platforms>>]_vars

\* C13 as amended: a search that returns issues derives the available status
\* and platform lists from them, so that whenever a result set is held they are
\* exactly its distinct statuses and platforms; a search that returns no issue
\* or fails leaves them as the last search that returned issues derived them,
\* and a filter or pagination action does not change them.
C13_FacetsOfLastRetrieval ==
    [][variant = "uat" =>
         /\ search_results' # <<>> => FacetsDerivedFrom(search_results')
         /\ (event' \in SearchEvents /\ search_results' = <<>>) =>
              UNCHANGED <<available_statuses, available_platforms>>
         /\ event' \in {"platform", "prev", "next", "submit_nosearch"} =>
              UNCHANGED <<available_statuses, available_platforms>>]_vars

\* a search has failed after one that returned issues: no result set is held,
\* and the available lists are still those of the earlier search
C13_Witness ==
    /\ variant = "uat" /\ event = "submit_fail"
    /\ search_results = <<>> /\ last_ok # <<>>
    /\ available_statuses = AvailableStatuses(last_ok)
    /\ available_statuses # <<>> /\ available_platforms # <<>>

(***************************************************************************)
(* Claims about the query builders (checked under SpecJql).                *)
(***************************************************************************)
\* the number of backslashes that directly precede position i
RECURSIVE BackslashRun(_, _)
BackslashRun(jql, i) ==
    IF i > 1 /\ jql[i - 1].s = BACKSLASH THEN 1 + BackslashRun(jql, i - 1) ELSE 0

\* the positions of the quotes of the user's text that the query language reads
\* as the end of a string: those after an even number of backslashes
UnescapedUserQuotes(jql) ==
    {i \in DOMAIN jql :
        jql[i].src = "text" /\ jql[i].s = QUOTE /\ BackslashRun(jql, i) % 2 = 0}

\* C5: in the compiled query every double quote of the user's search text is
\* escaped, whatever the text (backslashes and quoted phrases included).
C5_UserQuotesEscaped ==
    /\ jq_pc \in {"app", "done"} => UnescapedUserQuotes(jq_app) = {}
    /\ jq_pc = "done" => UnescapedUserQuotes(jq_uat) = {}

\* the orderings of a list
Perms(list) == {p \in ListsOf(Range(list), Len(list)) : Len(p) = Len(list)}
\* the values of one facet in a compiled query, in the order they appear
ValuesOf(jql, kind) ==
    LET toks == SelectSeq(jql, LAMBDA t : t.src = kind)
    IN  [i \in DOMAIN toks |-> toks[i].s]

ClauseKind(tok) ==
    IF tok.src # "lit" THEN ""
    ELSE CASE tok.s \in {"(summary ~ \"", "(text ~ \""} -> "text"
           [] tok.s \in {"project in (", "project IN ("} -> "project"
           [] tok.s = "status IN (" -> "status"
           [] tok.s = "\"Platform\" ~ \"" -> "platform"
           [] tok.s \in {"updated >= \"", "created >= -"} -> "time"
           [] tok.s \in {" ORDER BY updated DESC",
                         " ORDER BY created DESC, project ASC"} -> "sort"
           [] OTHER -> ""
\* the clauses of a compiled query, in the order they appear
ClauseKinds(jql) ==
    LET toks == SelectSeq(jql, LAMBDA t : ClauseKind(t) # "")
    IN  [i \in DOMAIN toks |-> ClauseKind(toks[i])]
\* every clause but the first, and but the sort clause, directly follows " AND "
JoinedByAnd(jql) ==
    \A i \in DOMAIN jql :
        (ClauseKind(jql[i]) \notin {"", "sort"} /\ i > 1) =>
            (jql[i - 1].src = "lit" /\ jql[i - 1].s = " AND ")
SortLast(jql) == jql # <<>> /\ ClauseKind(jql[Len(jql)]) = "sort"

\* C7 as stated: the clauses present appear in the order text, project, status,
\* platform, time, joined by AND, and the sort clause is last.
C7_TextFirstOrder ==
    jq_pc = "done" =>
        /\ IsSubseq(ClauseKinds(jq_uat),
                    <<"text", "project", "status", "platform", "time", "sort">>)
        /\ IsSubseq(ClauseKinds(jq_app),
                    <<"text", "project", "status", "platform", "time", "sort">>)
        /\ JoinedByAnd(jq_uat) /\ JoinedByAnd(jq_app)
        /\ SortLast(jq_uat) /\ SortLast(jq_app)

\* C7 as amended: search_jira of uat_app.py emits project, text, status, platform,
\* time (the project clause always, the others when their value is not empty);
\* build_jql of app.py emits text, project, time; the clauses are joined by AND
\* and the sort clause is last.
C7_ClauseOrder ==
    jq_pc = "done" =>
        /\ ClauseKinds(jq_uat) =
             <<"project">>
               \o (IF jq_query # <<>> THEN <<"text">> ELSE <<>>)
               \o (IF jq_statuses # <<>> THEN <<"status">> ELSE <<>>)
               \o (IF jq_platform # "" THEN <<"platform">> ELSE <<>>)
               \o (IF jq_time # "All time" THEN <<"time">> ELSE <<>>)
               \o <<"sort">>
        /\ ClauseKinds(jq_app) =
             <<"text">>
               \o (IF jq_projects # <<>> THEN <<"project">> ELSE <<>>)
               \o (IF jq_time # "All time" THEN <<"time">> ELSE <<>>)
               \o <<"sort">>
        /\ JoinedByAnd(jq_uat) /\ JoinedByAnd(jq_app)
        /\ SortLast(jq_uat) /\ SortLast(jq_app)

\* a compiled request with every clause present
C7_Witness ==
    /\ jq_pc = "done"
    /\ jq_query # <<>> /\ Len(jq_projects) = 2 /\ jq_statuses # <<>>
    /\ jq_platform # "" /\ jq_time # "All time"
    /\ ClauseKinds(jq_uat) = <<"project", "text", "status", "platform", "time", "sort">>
    /\ ClauseKinds(jq_app) = <<"text", "project", "time", "sort">>

(***************************************************************************)
(* Claims about parse_jira_date (checked under SpecDate).                  *)
(***************************************************************************)
\* C8: a timestamp with fractional seconds parses to the same instant, at second
\* precision, as the same timestamp with the fractional seconds removed, for
\* every length of the fraction and every zone suffix.
C8_FractionIgnored ==
    dt_pc = "done" => dt_with = dt_without

C11_DisplayCompletes ==
    at_pc = "done" =>
        /\ at_exc = ""
        /\ at_rendered = [i \in 1..Len(at_page) |-> i]
        /\ at_controls
(***************************************************************************)
(* Claims about extract_text and its cache (checked under SpecOcr).        *)
(***************************************************************************)
\* C12: over any sequence of OCR requests, with any credentials, the body of
\* extract_text runs at most once per content reference: only the first request
\* for a content reference runs it, whether it failed or not, and every later
\* request returns the text the first one returned.
C12_ExtractAtMostOnce ==
    /\ \A u \in ContentRefs : oc_runs[u] <= 1
    /\ oc_requests > 0 =>
         /\ oc_last.hit <=> (oc_first[oc_last.url].n > 1)
         /\ oc_last.text = oc_first[oc_last.url].text

\* a content reference whose first extraction failed has been requested again,
\* with other credentials, and answered from the cache
C12_Witness ==
    /\ oc_requests > 1
    /\ oc_last.hit /\ oc_last.diag /\ oc_last.text = ""
    /\ oc_runs[oc_last.url] = 1
    /\ \E c \in oc_cache : c.key = <<oc_last.url>> /\ c.diag
    /\ SplitParts(oc_last.token) = 2
==========================================================================
